---- MODULE Spec2Model ----
(***************************************************************************)
(* Model of the node annotator service (src/web/handlers/annotator.py).    *)
(*                                                                         *)
(* Strings that the code splits or tests by prefix (curies, mesh ids) are  *)
(* sequences of atoms.  An atom stands for a colon-free piece of text; the *)
(* atom ":" is the colon.  The atoms are chosen so that no concatenation   *)
(* of two or more of them spells a key of BIOLINK_PREFIX_to_BioThings, so  *)
(* a prefix is a key of the table exactly when it is a one-atom sequence   *)
(* holding that key.                                                       *)
(*                                                                         *)
(* Python dicts are functions; an ordered dict whose iteration order       *)
(* matters is a sequence of its keys (or of [key, value] pairs).           *)
(*                                                                         *)
(* The fields argument is handed to the lookup client unchanged and has no *)
(* effect on the control flow, so it is left out; the client is external   *)
(* and answers nondeterministically.                                       *)
(***************************************************************************)
EXTENDS Integers, Sequences, FiniteSets, TLC

VARIABLES
    op,                 \* which entry point this run exercises
    pc,                 \* position in the entry point
    curie,              \* annotate_curie / parse_curie argument
    return_type,        \* parse_curie argument
    return_id,          \* parse_curie argument
    raw,                \* raw argument
    append,             \* annotate_trapi argument
    limit,              \* annotate_trapi argument: [is_none, v]
    trapi_ok,           \* message.knowledge_graph.nodes is a dict
    record,             \* Annotator.transform argument
    doc1,               \* merge_func argument: the new document
    doc2,               \* merge_func argument: the existing document
    input_keys,         \* node ids of the input mapping, in iteration order
    input_nodes,        \* the input node objects as they were at the call
    nodes,              \* the node objects (mutated in place)
    node_d,             \* keys of the local node_d, in iteration order
    node_list_by_type,  \* ordered dict: sequence of [type, nodes]
    ti,                 \* index of the for loop over node_list_by_type
    node_id_d,          \* query id -> original node id, current type
    res_by_id,          \* ordered dict: sequence of [key, recs], current type
    ri,                 \* index of the for loop over res_by_id
    annotated,          \* history: [type, key, node, recs] of each result attached
    calls,              \* history: the lookups issued, [type, ids, res]
    ret,                \* value returned
    exc                 \* exception raised

vars == <<op, pc, curie, return_type, return_id, raw, append, limit, trapi_ok,
          record, doc1, doc2, input_keys, input_nodes, nodes, node_d, node_list_by_type, ti,
          node_id_d, res_by_id, ri, annotated, calls, ret, exc>>

None == "None"

(***************************************************************************)
(* Bounds of the model.                                                    *)
(***************************************************************************)
MaxCurieLen == 4
MaxNodes == 2
MaxLimit == 2
MaxIndications == 2

(***************************************************************************)
(* dict helpers                                                            *)
(***************************************************************************)
EmptyDict == <<>>

Get(d, k, default) == IF k \in DOMAIN d THEN d[k] ELSE default

Pop(d, k) == [f \in DOMAIN d \ {k} |-> d[f]]

SetKey(d, k, v) == [f \in DOMAIN d \cup {k} |-> IF f = k THEN v ELSE d[f]]

(***************************************************************************)
(* The namespace table.                                                    *)
(***************************************************************************)
BIOLINK_PREFIX_to_BioThings ==
    ("NCBIGene" :> [type |-> "gene", field |-> "entrezgene"]) @@
    ("ENSEMBL" :> [type |-> "gene", field |-> "ensembl.gene"]) @@
    ("UniProtKB" :> [type |-> "gene", field |-> "uniprot.Swiss-Prot"]) @@
    ("INCHIKEY" :> [type |-> "chem"]) @@
    ("CHEMBL.COMPOUND" :> [type |-> "chem", field |-> "chembl.molecule_chembl_id"]) @@
    ("PUBCHEM.COMPOUND" :> [type |-> "chem", field |-> "pubchem.cid"]) @@
    ("CHEBI" :> [type |-> "chem", field |-> "chebi.id", keep_prefix |-> TRUE]) @@
    ("UNII" :> [type |-> "chem", field |-> "unii.unii"]) @@
    ("MONDO" :> [type |-> "disease", field |-> "mondo.mondo", keep_prefix |-> TRUE]) @@
    ("DOID" :> [type |-> "disease", field |-> "disease_ontology.doid", keep_prefix |-> TRUE])

\* The entity types that have a client.
annotator_clients == {"gene", "chem", "disease"}

\* TableGet with a gene entry as the default instead of {}.
TableGetDefaultGene(_prefix) ==
    IF Len(_prefix) = 1 /\ _prefix[1] \in DOMAIN BIOLINK_PREFIX_to_BioThings
    THEN BIOLINK_PREFIX_to_BioThings[_prefix[1]]
    ELSE [type |-> "gene"]

\* BIOLINK_PREFIX_to_BioThings.get(_prefix, {})
TableGet(_prefix) ==
    IF Len(_prefix) = 1 /\ _prefix[1] \in DOMAIN BIOLINK_PREFIX_to_BioThings
    THEN BIOLINK_PREFIX_to_BioThings[_prefix[1]]
    ELSE EmptyDict

(***************************************************************************)
(* str helpers                                                             *)
(***************************************************************************)
HasColon(s) == \E i \in 1..Len(s) : s[i] = ":"

\* FirstColon splitting at the last colon (rsplit) instead of the first.
LastColon(s) == CHOOSE i \in 1..Len(s) :
                    s[i] = ":" /\ \A j \in (i + 1)..Len(s) : s[j] # ":"

\* index of the first colon of a string that has one
FirstColon(s) == CHOOSE i \in 1..Len(s) :
                    s[i] = ":" /\ \A j \in 1..(i - 1) : s[j] # ":"

\* s.split(":", 1) of a string that has a colon
Split1(s) == [prefix |-> SubSeq(s, 1, FirstColon(s) - 1),
              id |-> SubSeq(s, FirstColon(s) + 1, Len(s))]

(***************************************************************************)
(* Annotator.parse_curie.  The result is [exc, type, id]; a part that is   *)
(* not returned is None (type) or the empty string (id), with has_type and *)
(* has_id telling which parts the caller gets.  No entry of the table has  *)
(* a converter (the only one is commented out), so cvtr is always None and *)
(* the converter branch never runs.                                        *)
(***************************************************************************)
parse_curie(c, rt, rid) ==
    IF ~HasColon(c)
    THEN [exc |-> "InvalidCurieError", has_type |-> FALSE, type |-> None,
          has_id |-> FALSE, id |-> <<>>]
    ELSE LET _prefix == Split1(c).prefix
             entry == TableGet(_prefix)
             _type == Get(entry, "type", None)
             _id == IF rid /\ (_type = None \/ Get(entry, "keep_prefix", FALSE))
                    THEN c
                    ELSE Split1(c).id
         IN  [exc |-> None,
              has_type |-> rt, type |-> IF rt THEN _type ELSE None,
              has_id |-> rid,
              id |-> IF rid THEN _id ELSE <<>>]

(***************************************************************************)
(* Annotation records.  The lookup client (external) returns a list of     *)
(* records, each carrying the "query" id that produced it.  The value of   *)
(* "chembl" is a mapping or a list of mappings: [is_list, items], a single *)
(* mapping being the one item.                                             *)
(***************************************************************************)
RecordKinds == {"plain", "chembl"}

ClientRecord(q, kind) ==
    IF kind = "plain"
    THEN [query |-> q, _score |-> 1, _id |-> "doc"]
    ELSE [query |-> q, _id |-> "doc",
          chembl |-> [is_list |-> FALSE,
                      items |-> << [drug_indications |->
                                      << [mesh_id |-> <<"D1">>] >>] >>]]

\* f"{prefix}:{id}" if not id.startswith(prefix) else id
append_prefix(id, prefix) ==
    IF Len(id) >= 1 /\ id[1] = prefix THEN id ELSE <<prefix, ":">> \o id

\* ResponseTransformer._transform_chembl_drug_indications._append_mesh_prefix
_append_mesh_prefix(chembl) ==
    IF "drug_indications" \notin DOMAIN chembl
    THEN chembl
    ELSE SetKey(chembl, "drug_indications",
            [i \in 1..Len(chembl["drug_indications"]) |->
                LET doc == chembl["drug_indications"][i]
                IN  IF "mesh_id" \in DOMAIN doc
                    THEN SetKey(doc, "mesh_id", append_prefix(doc["mesh_id"], "MESH"))
                    ELSE doc])

\* ResponseTransformer._transform_chembl_drug_indications
_transform_chembl_drug_indications(res) ==
    IF "chembl" \notin DOMAIN res
    THEN res
    ELSE LET chembl == res["chembl"]
             truthy == IF chembl.is_list
                       THEN Len(chembl.items) > 0
                       ELSE DOMAIN chembl.items[1] # {}
         IN  IF truthy
             THEN SetKey(res, "chembl",
                    [is_list |-> chembl.is_list,
                     items |-> [i \in 1..Len(chembl.items) |->
                                  _append_mesh_prefix(chembl.items[i])]])
             ELSE res

\* ResponseTransformer.transform, called with one record: the only
\* _transform_ method is applied to it.
ResponseTransformer_transform(res) == _transform_chembl_drug_indications(res)

\* Annotator.transform
transform(res) == ResponseTransformer_transform(Pop(Pop(res, "query"), "_score"))

(***************************************************************************)
(* Ordered dicts as sequences of [key, value].                             *)
(***************************************************************************)
HasKey(od, k) == \E i \in 1..Len(od) : od[i].key = k

Lookup(od, k) == od[CHOOSE i \in 1..Len(od) : od[i].key = k].value

RECURSIVE list2dictLoop(_, _, _)
list2dictLoop(li, key, out) ==
    IF li = <<>>
    THEN out
    ELSE LET d == Head(li)
             k == d[key]
         IN  list2dictLoop(Tail(li), key,
                IF ~HasKey(out, k)
                THEN Append(out, [key |-> k, value |-> <<d>>])
                ELSE [i \in 1..Len(out) |->
                        IF out[i].key = k
                        THEN [key |-> k, value |-> Append(out[i].value, d)]
                        ELSE out[i]])

list2dict(li, key) == list2dictLoop(li, key, <<>>)

(***************************************************************************)
(* The lookup client.  client.querymany(query_list) answers, for each      *)
(* distinct id of query_list in the order of its first occurrence, with no *)
(* record (the id is missing from the result), with one or two plain       *)
(* records, or with one chembl record.                                     *)
(***************************************************************************)
RECURSIVE Dedup(_)
Dedup(s) ==
    IF s = <<>>
    THEN <<>>
    ELSE LET rest == Dedup(SubSeq(s, 1, Len(s) - 1))
             last == s[Len(s)]
         IN  IF \E i \in 1..Len(rest) : rest[i] = last THEN rest ELSE Append(rest, last)

AnswerOptions == {[n |-> 0, kind |-> "plain"], [n |-> 1, kind |-> "plain"],
                  [n |-> 2, kind |-> "plain"], [n |-> 1, kind |-> "chembl"]}

RECURSIVE Answer(_, _)
Answer(ids, choice) ==
    IF ids = <<>>
    THEN <<>>
    ELSE [i \in 1..choice[Head(ids)].n |-> ClientRecord(Head(ids), choice[Head(ids)].kind)]
         \o Answer(Tail(ids), choice)

querymany(query_list) ==
    {Answer(Dedup(query_list), choice) :
        choice \in [{query_list[i] : i \in 1..Len(query_list)} -> AnswerOptions]}

\* A call query_biothings issues, with the result mapping it returns.
ClientCall(node_type, query_list, res) ==
    [type |-> node_type, ids |-> query_list, res |-> res]

(***************************************************************************)
(* Python values whose kind the callers can tell apart.                    *)
(***************************************************************************)
PyNone == [t |-> "none", v |-> <<>>]
PyList(s) == [t |-> "list", v |-> s]
PyDict(od) == [t |-> "dict", v |-> od]

(***************************************************************************)
(* Inputs                                                                  *)
(***************************************************************************)
Atoms == {"NCBIGene", "CHEBI", "FOO", ":", "1"}

RECURSIVE SeqsUpTo(_, _)
SeqsUpTo(S, n) ==
    IF n = 0
    THEN {<<>>}
    ELSE LET shorter == SeqsUpTo(S, n - 1)
         IN  shorter \cup {Append(s, a) : s \in shorter, a \in S}

Curies == SeqsUpTo(Atoms, MaxCurieLen) \ {<<>>}

inputs == <<op, curie, return_type, return_id, raw, append, limit, trapi_ok,
            record, doc1, doc2, input_keys, input_nodes>>

trapi_locals == <<nodes, node_d, node_list_by_type, ti, node_id_d, res_by_id, ri,
                  annotated>>

\* limit: None or an integer
NoLimit == [is_none |-> TRUE, v |-> 0]
IntLimit(n) == [is_none |-> FALSE, v |-> n]

\* The node ids the graphs are built from.
NodeIds == {<<"NCBIGene", ":", "1">>, <<"ENSEMBL", ":", "1">>,
            <<"NCBIGene", ":", "2">>, <<"CHEBI", ":", "1">>,
            <<"FOO", ":", "1">>, <<"garbage">>}

\* An attribute a node already carries.
ExistingAttribute == [attribute_type_id |-> "biolink:name", value |-> <<>>]

\* Node objects: with or without an "attributes" list.
NodeObjects == {[name |-> "n"],
                [name |-> "n", attributes |-> <<ExistingAttribute>>]}

\* Key sequences of a dict: no key twice.
DistinctSeqs(S, n) ==
    {s \in SeqsUpTo(S, n) : \A i, j \in 1..Len(s) : i # j => s[i] # s[j]}

SeqRange(s) == {s[i] : i \in 1..Len(s)}

InitParse ==
    /\ op = "parse_curie"
    /\ curie \in Curies
    /\ return_type \in BOOLEAN
    /\ return_id \in BOOLEAN
    /\ raw = FALSE /\ append = FALSE /\ limit = NoLimit /\ trapi_ok = TRUE
    /\ input_keys = <<>> /\ input_nodes = EmptyDict
    /\ record = EmptyDict /\ doc1 = EmptyDict /\ doc2 = EmptyDict

InitCurie ==
    /\ op = "annotate_curie"
    /\ curie \in Curies
    /\ return_type = TRUE /\ return_id = TRUE
    /\ raw \in BOOLEAN
    /\ append = FALSE /\ limit = NoLimit /\ trapi_ok = TRUE
    /\ input_keys = <<>> /\ input_nodes = EmptyDict
    /\ record = EmptyDict /\ doc1 = EmptyDict /\ doc2 = EmptyDict

InitTrapi ==
    /\ op = "annotate_trapi"
    /\ curie = <<>> /\ return_type = TRUE /\ return_id = TRUE
    /\ raw \in BOOLEAN
    /\ append \in BOOLEAN
    /\ \/ /\ trapi_ok = TRUE
          /\ limit \in {NoLimit} \cup {IntLimit(n) : n \in 0..MaxLimit}
          /\ input_keys \in DistinctSeqs(NodeIds, MaxNodes)
          /\ input_nodes \in [SeqRange(input_keys) -> NodeObjects]
       \/ /\ trapi_ok = FALSE
          /\ limit = NoLimit
          /\ input_keys = <<>> /\ input_nodes = EmptyDict
    /\ record = EmptyDict /\ doc1 = EmptyDict /\ doc2 = EmptyDict

\* The records Annotator.transform is applied to on its own.
MeshIds == {<<"D1">>, <<"MESH", ":", "D1">>, <<"MESH", "D1">>}

IndicationDocs == {[efo_term |-> "t"]} \cup
                  {[efo_term |-> "t", mesh_id |-> m] : m \in MeshIds}

ChemblMappings == {EmptyDict, [pref_name |-> "c"]} \cup
                  {[pref_name |-> "c", drug_indications |-> li] :
                      li \in SeqsUpTo(IndicationDocs, MaxIndications)}

ChemblValues == {[is_list |-> FALSE, items |-> <<m>>] : m \in ChemblMappings} \cup
                {[is_list |-> TRUE, items |-> li] : li \in SeqsUpTo(ChemblMappings, 2)}

TransformRecords ==
    {[query |-> <<"1">>, _score |-> 1, _id |-> "doc"]} \cup
    {[query |-> <<"1">>, _score |-> 1, _id |-> "doc", chembl |-> c] : c \in ChemblValues}

InitTransform ==
    /\ op = "transform"
    /\ record \in TransformRecords
    /\ curie = <<>> /\ return_type = TRUE /\ return_id = TRUE
    /\ raw = FALSE /\ append = FALSE /\ limit = NoLimit /\ trapi_ok = TRUE
    /\ input_keys = <<>> /\ input_nodes = EmptyDict
    /\ doc1 = EmptyDict /\ doc2 = EmptyDict

(***************************************************************************)
(* The openFDA drug events uploader                                        *)
(* (src/plugins/openfda_drug_events/uploader.py).  A date string is        *)
(* [fmt, y, m, d]: its layout and the numbers its digits spell.  The       *)
(* layouts are the three parse_date knows and "%Y-%m-%d", the one          *)
(* _process_field_vals writes into every field whose key ends in "date".   *)
(***************************************************************************)
StrLen(date_str) ==
    CASE date_str.fmt = "%Y%m%d" -> 8
      [] date_str.fmt = "%Y%m" -> 6
      [] date_str.fmt = "%Y" -> 4
      [] date_str.fmt = "%Y-%m-%d" -> 10

NoDate == [is_none |-> TRUE, y |-> 0, m |-> 0, d |-> 0]

datetime(y, m, d) == [is_none |-> FALSE, y |-> y, m |-> m, d |-> d]

\* OpenFDADrugUploader.parse_date
parse_date(date_str) ==
    IF StrLen(date_str) = 8
    THEN datetime(date_str.y, date_str.m, date_str.d)
    ELSE IF StrLen(date_str) = 6
    THEN datetime(date_str.y, date_str.m, 1)
    ELSE IF StrLen(date_str) = 4
    THEN datetime(date_str.y, 1, 1)
    ELSE NoDate

\* datetime.__gt__ of two datetimes
DateGreater(a, b) ==
    \/ a.y > b.y
    \/ a.y = b.y /\ a.m > b.m
    \/ a.y = b.y /\ a.m = b.m /\ a.d > b.d

date_priority_order == <<"transmissiondate", "receivedate", "receiptdate">>

\* The loop of merge_func over the fields from position i on.  [exc, doc]:
\* comparing with None raises TypeError.
RECURSIVE MergeLoop(_, _, _)
MergeLoop(i, d1, d2) ==
    IF i > Len(date_priority_order)
    THEN [exc |-> None, doc |-> d2]
    ELSE LET field == date_priority_order[i]
             a == parse_date(d1[field])
             b == parse_date(d2[field])
         IN  IF a.is_none \/ b.is_none
             THEN [exc |-> "TypeError", doc |-> d2]
             ELSE IF DateGreater(a, b)
             THEN [exc |-> None, doc |-> d1]
             ELSE MergeLoop(i + 1, d1, d2)

\* MostRecentStorage.merge_func
merge_func(d1, d2) == MergeLoop(1, d1, d2)

\* The date strings the documents carry.
DateStrs == {[fmt |-> "%Y", y |-> 2020, m |-> 1, d |-> 1],
             [fmt |-> "%Y%m", y |-> 2020, m |-> 2, d |-> 1],
             [fmt |-> "%Y%m%d", y |-> 2020, m |-> 1, d |-> 1],
             [fmt |-> "%Y%m%d", y |-> 2021, m |-> 1, d |-> 1],
             [fmt |-> "%Y-%m-%d", y |-> 2020, m |-> 1, d |-> 1]}

Documents(id) ==
    [_id : {id}, transmissiondate : DateStrs, receivedate : DateStrs,
     receiptdate : DateStrs]

InitMerge ==
    /\ op = "merge_func"
    /\ doc1 \in Documents("new")
    /\ doc2 \in Documents("existing")
    /\ record = EmptyDict
    /\ curie = <<>> /\ return_type = TRUE /\ return_id = TRUE
    /\ raw = FALSE /\ append = FALSE /\ limit = NoLimit /\ trapi_ok = TRUE
    /\ input_keys = <<>> /\ input_nodes = EmptyDict

Init ==
    /\ InitParse \/ InitCurie \/ InitTrapi \/ InitTransform \/ InitMerge
    /\ annotated = <<>>
    /\ pc = "start"
    /\ nodes = input_nodes
    /\ node_d = input_keys
    /\ node_list_by_type = <<>>
    /\ ti = 1
    /\ node_id_d = EmptyDict
    /\ res_by_id = <<>>
    /\ ri = 1
    /\ calls = <<>>
    /\ ret = PyNone
    /\ exc = None

(***************************************************************************)
(* parse_curie called on its own.                                          *)
(***************************************************************************)
ParseCurie ==
    /\ op = "parse_curie" /\ pc = "start"
    /\ LET p == parse_curie(curie, return_type, return_id)
       IN  IF p.exc # None
           THEN /\ exc' = p.exc /\ pc' = "failed" /\ ret' = ret
           ELSE /\ ret' = [t |-> "parsed", v |-> p]
                /\ pc' = "done" /\ exc' = exc
    /\ UNCHANGED <<inputs, trapi_locals, calls>>

(***************************************************************************)
(* Annotator.transform called on its own, as the non-raw paths call it on  *)
(* each record.                                                            *)
(***************************************************************************)
Transform ==
    /\ op = "transform" /\ pc = "start"
    /\ ret' = [t |-> "record", v |-> transform(record)]
    /\ pc' = "done"
    /\ UNCHANGED <<inputs, trapi_locals, calls, exc>>

(***************************************************************************)
(* MostRecentStorage.merge_func(doc1, doc2)                                *)
(***************************************************************************)
MergeFunc ==
    /\ op = "merge_func" /\ pc = "start"
    /\ LET r == merge_func(doc1, doc2)
       IN  IF r.exc # None
           THEN /\ exc' = r.exc /\ pc' = "failed" /\ ret' = ret
           ELSE /\ ret' = [t |-> "doc", v |-> r.doc]
                /\ pc' = "done" /\ exc' = exc
    /\ UNCHANGED <<inputs, trapi_locals, calls>>

(***************************************************************************)
(* Annotator.annotate_curie                                                *)
(***************************************************************************)
AnnotateCurie ==
    /\ op = "annotate_curie" /\ pc = "start"
    /\ LET p == parse_curie(curie, TRUE, TRUE)
       IN  IF p.exc # None
           THEN /\ exc' = p.exc /\ pc' = "failed"
                /\ UNCHANGED <<ret, calls, res_by_id>>
           ELSE IF p.type = None
           THEN /\ exc' = "InvalidCurieError" /\ pc' = "failed"
                /\ UNCHANGED <<ret, calls, res_by_id>>
           ELSE \E answer \in querymany(<<p.id>>) :
                  LET res == list2dict(answer, "query")
                  IN  /\ calls' = Append(calls, ClientCall(p.type, <<p.id>>, res))
                      /\ res_by_id' = res
                      /\ IF raw
                         THEN /\ ret' = PyDict(<<[key |-> curie, value |-> PyDict(res)]>>)
                              /\ pc' = "done" /\ exc' = exc
                         ELSE IF ~HasKey(res, p.id)
                         THEN /\ exc' = "KeyError" /\ pc' = "failed" /\ ret' = ret
                         ELSE /\ ret' = PyDict(<<[key |-> curie,
                                      value |-> PyList([i \in 1..Len(Lookup(res, p.id)) |->
                                                  transform(Lookup(res, p.id)[i])])]>>)
                              /\ pc' = "done" /\ exc' = exc
    /\ UNCHANGED <<inputs, nodes, node_d, node_list_by_type, ti, node_id_d, ri,
                   annotated>>

(***************************************************************************)
(* Annotator.annotate_trapi                                                *)
(***************************************************************************)

\* The truncation loop: for node_id in node_d: i += 1; if i > limit: break
RECURSIVE TruncateLoop(_, _, _, _)
TruncateLoop(keys, i, lim, _node_d) ==
    IF keys = <<>>
    THEN _node_d
    ELSE IF i + 1 > lim
         THEN _node_d
         ELSE TruncateLoop(Tail(keys), i + 1, lim, Append(_node_d, Head(keys)))

\* "if limit:" -- None and 0 are both falsy
Truncate(keys, lim) ==
    IF ~lim.is_none /\ lim.v # 0
    THEN TruncateLoop(keys, 0, lim.v, <<>>)
    ELSE keys

\* The grouping loop.  [exc, value]: value is node_list_by_type.
RECURSIVE GroupLoop(_, _)
GroupLoop(keys, by_type) ==
    IF keys = <<>>
    THEN [exc |-> None, value |-> by_type]
    ELSE LET node_id == Head(keys)
             p == parse_curie(node_id, TRUE, FALSE)
         IN  IF p.exc # None
             THEN [exc |-> p.exc, value |-> by_type]
             ELSE IF p.type = None
             THEN GroupLoop(Tail(keys), by_type)
             ELSE GroupLoop(Tail(keys),
                    IF ~HasKey(by_type, p.type)
                    THEN Append(by_type, [key |-> p.type, value |-> <<node_id>>])
                    ELSE [i \in 1..Len(by_type) |->
                            IF by_type[i].key = p.type
                            THEN [key |-> p.type,
                                  value |-> Append(by_type[i].value, node_id)]
                            ELSE by_type[i]])

\* [self.parse_curie(_id, return_type=False, return_id=True) for _id in node_list]
QueryList(node_list) ==
    [i \in 1..Len(node_list) |-> parse_curie(node_list[i], FALSE, TRUE).id]

\* ZipDict where the first pair of a key wins instead of the last.
ZipDictFirstWins(query_list, node_list) ==
    [q \in SeqRange(query_list) |->
        node_list[CHOOSE i \in 1..Len(query_list) :
                    /\ query_list[i] = q
                    /\ \A j \in 1..(i - 1) : query_list[j] # q]]

\* ZipDict zipping the query ids with the keys of node_d instead of with
\* the node list of the type.
ZipDictAllNodes(query_list, node_list) ==
    [q \in SeqRange(query_list) |->
        node_d[CHOOSE i \in 1..Len(query_list) :
                    /\ query_list[i] = q
                    /\ \A j \in (i + 1)..Len(query_list) : query_list[j] # q]]

\* dict(zip(query_list, node_list)): a later pair overwrites an earlier one
ZipDict(query_list, node_list) ==
    [q \in SeqRange(query_list) |->
        node_list[CHOOSE i \in 1..Len(query_list) :
                    /\ query_list[i] = q
                    /\ \A j \in (i + 1)..Len(query_list) : query_list[j] # q]]

\* The attribute envelope of lines 276-279.
Envelope(res) == [attribute_type_id |-> "biothings_annotations", value |-> res]

\* The value put into the envelope: list2dict values are lists, so the
\* records are transformed one by one unless raw.
EnvelopeValue(res, is_raw) ==
    IF is_raw THEN res ELSE [i \in 1..Len(res) |-> transform(res[i])]

\* Attach that replaces the attributes whatever append says.
AttachAlwaysReplace(node, envelope, is_append) ==
    SetKey(node, "attributes", <<envelope>>)

\* Lines 280-285: the node object after the envelope is attached.
Attach(node, envelope, is_append) ==
    IF is_append
    THEN SetKey(node, "attributes", Append(node["attributes"], envelope))
    ELSE SetKey(node, "attributes", <<envelope>>)

\* Lines 226-242: shape check and truncation.
TrapiStart ==
    /\ op = "annotate_trapi" /\ pc = "start"
    /\ IF ~trapi_ok
       THEN /\ exc' = "TRAPIInputError" /\ pc' = "failed"
            /\ UNCHANGED node_d
       ELSE /\ node_d' = Truncate(input_keys, limit)
            /\ pc' = "group" /\ exc' = exc
    /\ UNCHANGED <<inputs, nodes, node_list_by_type, ti, node_id_d, res_by_id, ri,
                   annotated, calls, ret>>

\* Lines 244-253: group the node ids by entity type.
TrapiGroup ==
    /\ op = "annotate_trapi" /\ pc = "group"
    /\ LET g == GroupLoop(node_d, <<>>)
       IN  IF g.exc # None
           THEN /\ exc' = g.exc /\ pc' = "failed"
                /\ UNCHANGED node_list_by_type
           ELSE /\ node_list_by_type' = g.value
                /\ pc' = "types" /\ exc' = exc
    /\ ti' = 1
    /\ UNCHANGED <<inputs, nodes, node_d, node_id_d, res_by_id, ri, annotated,
                   calls, ret>>

\* Lines 254-266: one iteration of the loop over the types, up to the lookup.
TrapiQueryType ==
    /\ op = "annotate_trapi" /\ pc = "types"
    /\ ti <= Len(node_list_by_type)
    /\ LET node_type == node_list_by_type[ti].key
           node_list == node_list_by_type[ti].value
       IN  IF node_type \notin annotator_clients \/ node_list = <<>>
           THEN /\ ti' = ti + 1
                /\ UNCHANGED <<pc, node_id_d, res_by_id, ri, calls>>
           ELSE LET query_list == QueryList(node_list)
                IN  \E answer \in querymany(query_list) :
                      /\ node_id_d' = ZipDict(query_list, node_list)
                      /\ res_by_id' = list2dict(answer, "query")
                      /\ calls' = Append(calls,
                                    ClientCall(node_type, query_list, res_by_id'))
                      /\ ri' = 1
                      /\ IF res_by_id' = <<>>
                         THEN ti' = ti + 1 /\ pc' = "types"
                         ELSE ti' = ti /\ pc' = "attach"
    /\ UNCHANGED <<inputs, nodes, node_d, node_list_by_type, annotated, ret, exc>>

\* Lines 267-285: one iteration of the loop over the results of a type.
TrapiAttach ==
    /\ op = "annotate_trapi" /\ pc = "attach"
    /\ LET node_id == res_by_id[ri].key
       IN  IF node_id \notin DOMAIN node_id_d
           THEN /\ exc' = "KeyError" /\ pc' = "failed"
                /\ UNCHANGED <<nodes, annotated, ti, ri>>
           ELSE LET orig_node_id == node_id_d[node_id]
                    node_type == node_list_by_type[ti].key
                    res == EnvelopeValue(res_by_id[ri].value, raw)
                IN  IF append /\ "attributes" \notin DOMAIN nodes[orig_node_id]
                    THEN /\ exc' = "KeyError" /\ pc' = "failed"
                         /\ UNCHANGED <<nodes, annotated, ti, ri>>
                    ELSE /\ nodes' = [nodes EXCEPT ![orig_node_id] =
                                        Attach(@, Envelope(res), append)]
                         /\ annotated' = Append(annotated,
                                            [type |-> node_type, key |-> node_id,
                                             node |-> orig_node_id,
                                             recs |-> res_by_id[ri].value])
                         /\ exc' = exc
                         /\ IF ri = Len(res_by_id)
                            THEN ti' = ti + 1 /\ ri' = ri /\ pc' = "types"
                            ELSE ti' = ti /\ ri' = ri + 1 /\ pc' = "attach"
    /\ UNCHANGED <<inputs, node_d, node_list_by_type, node_id_d, res_by_id, calls, ret>>

\* Line 287: return node_d.
TrapiReturn ==
    /\ op = "annotate_trapi" /\ pc = "types"
    /\ ti > Len(node_list_by_type)
    /\ ret' = PyDict([i \in 1..Len(node_d) |->
                        [key |-> node_d[i], value |-> nodes[node_d[i]]]])
    /\ pc' = "done"
    /\ UNCHANGED <<inputs, nodes, node_d, node_list_by_type, ti, node_id_d,
                   res_by_id, ri, annotated, calls, exc>>

Next ==
    \/ ParseCurie
    \/ Transform
    \/ MergeFunc
    \/ AnnotateCurie
    \/ TrapiStart
    \/ TrapiGroup
    \/ TrapiQueryType
    \/ TrapiAttach
    \/ TrapiReturn

Spec == Init /\ [][Next]_vars

(***************************************************************************)
(* Properties.                                                             *)
(***************************************************************************)
Min(a, b) == IF a <= b THEN a ELSE b

\* The prefixes of the namespace table, by what the table says of them.
KnownPlainPrefixes == {"NCBIGene", "ENSEMBL", "UniProtKB", "INCHIKEY",
                       "CHEMBL.COMPOUND", "PUBCHEM.COMPOUND", "UNII"}
KeepPrefixes == {"CHEBI", "MONDO", "DOID"}

\* The text before and after the first colon of a string that has one.
BeforeColon(c) ==
    SubSeq(c, 1, (CHOOSE i \in 1..Len(c) :
                    c[i] = ":" /\ ~HasColon(SubSeq(c, 1, i - 1))) - 1)
AfterColon(c) ==
    SubSeq(c, (CHOOSE i \in 1..Len(c) :
                 c[i] = ":" /\ ~HasColon(SubSeq(c, 1, i - 1))) + 1, Len(c))

PrefixIn(c, S) == \E k \in S : BeforeColon(c) = <<k>>
UnknownPrefix(c) == ~PrefixIn(c, KnownPlainPrefixes \cup KeepPrefixes)

\* The entity type the namespace table gives a node id, None if it gives none.
ResolvedType(n) ==
    IF HasColon(n) /\ PrefixIn(n, KnownPlainPrefixes \cup KeepPrefixes)
    THEN BIOLINK_PREFIX_to_BioThings[BeforeColon(n)[1]].type
    ELSE None

\* The lookup id of a node id that resolves.
LookupIdOf(n) == IF PrefixIn(n, KeepPrefixes) THEN n ELSE AfterColon(n)

\* The records as the caller is to get them.
ExpectedRecords(recs, is_raw) ==
    IF is_raw
    THEN recs
    ELSE [i \in 1..Len(recs) |->
            _transform_chembl_drug_indications(Pop(Pop(recs[i], "query"), "_score"))]

ExpectedEnvelope(recs, is_raw) ==
    [attribute_type_id |-> "biothings_annotations",
     value |-> ExpectedRecords(recs, is_raw)]

\* The entity types the ids of a graph span.
TypesOf(keys) == {ResolvedType(keys[i]) : i \in 1..Len(keys)} \ {None}

\* The ids of a graph that resolve to a type, in iteration order.
IdsOfType(keys, t) == SelectSeq(keys, LAMBDA n : ResolvedType(n) = t)

TrapiRun == op = "annotate_trapi" /\ trapi_ok

\* C1: annotate_trapi never fails because of a node id whose entity type
\* cannot be resolved, whatever string the id is: the id is skipped.
C1_UnresolvedNodeNeverFatal ==
    TrapiRun => ~(pc = "failed" /\ exc = "InvalidCurieError")

\* C2: when annotate_trapi ends, it has issued exactly one lookup per entity
\* type the node ids span, each carrying all the ids of that type.
C2_OneLookupPerType ==
    (TrapiRun /\ pc \in {"done", "failed"}) =>
        /\ Len(calls) = Cardinality(TypesOf(node_d))
        /\ \A i \in 1..Len(calls) :
              Len(calls[i].ids) = Len(IdsOfType(node_d, calls[i].type))

\* C3: a node the lookup returns a result for gets exactly one new envelope:
\* appended to its existing attributes when append, as the only attribute
\* when not append, whatever the attributes were before.
C3_AppendOrReplace ==
    TrapiRun =>
        /\ \A i \in 1..Len(annotated) :
              LET a == annotated[i]
                  e == ExpectedEnvelope(a.recs, raw)
              IN  /\ (append /\ "attributes" \in DOMAIN input_nodes[a.node]) =>
                        nodes[a.node]["attributes"] =
                            Append(input_nodes[a.node]["attributes"], e)
                  /\ ~append => nodes[a.node]["attributes"] = <<e>>
        /\ pc = "done" =>
              \A c \in 1..Len(calls) : \A k \in 1..Len(calls[c].res) :
                \E i \in 1..Len(annotated) :
                    /\ annotated[i].type = calls[c].type
                    /\ annotated[i].key = calls[c].res[k].key
                    /\ annotated[i].recs = calls[c].res[k].value

C3_Witness ==
    /\ TrapiRun /\ pc = "done" /\ append
    /\ \E i \in 1..Len(annotated) :
          /\ "attributes" \in DOMAIN input_nodes[annotated[i].node]
          /\ Len(nodes[annotated[i].node]["attributes"]) = 2

\* C4: with limit an integer L, annotate_trapi returns exactly the first
\* min(L, N) nodes, and the other nodes are neither queried nor modified.
C4_LimitKeepsFirstNodes ==
    (TrapiRun /\ pc = "done" /\ ~limit.is_none) =>
        LET kept == Min(limit.v, Len(input_keys))
        IN  /\ Len(ret.v) = kept
            /\ \A i \in 1..Len(ret.v) : ret.v[i].key = input_keys[i]
            /\ \A i \in (kept + 1)..Len(input_keys) :
                  /\ nodes[input_keys[i]] = input_nodes[input_keys[i]]
                  /\ \A a \in 1..Len(annotated) :
                        annotated[a].node # input_keys[i]

\* C5: a node whose entity type is never queried (its prefix is not in the
\* namespace table, or its type has no client) is at every moment what it
\* was in the input.
C5_UnqueriedNodeUntouched ==
    TrapiRun =>
        \A n \in DOMAIN input_nodes :
            ResolvedType(n) \notin annotator_clients =>
                /\ DOMAIN nodes[n] = DOMAIN input_nodes[n]
                /\ nodes[n] = input_nodes[n]

C5_Witness ==
    /\ TrapiRun /\ pc = "done" /\ annotated # <<>>
    /\ \E i \in 1..Len(node_d) :
          /\ ResolvedType(node_d[i]) = None
          /\ nodes[node_d[i]] = input_nodes[node_d[i]]

\* C6: annotate_curie returns a mapping with the one key curie whose value is
\* the list of records the lookup returned for the id: transformed when not
\* raw, unchanged when raw.
C6_SingleKeyRecordList ==
    (op = "annotate_curie" /\ pc # "start" /\ calls # <<>>
        /\ HasKey(res_by_id, calls[1].ids[1])) =>
        /\ pc = "done"
        /\ Len(ret.v) = 1
        /\ ret.v[1].key = curie
        /\ ret.v[1].value.t = "list"
        /\ LET recs == Lookup(res_by_id, calls[1].ids[1])
           IN  ret.v[1].value.v =
                 IF raw
                 THEN recs
                 ELSE [i \in 1..Len(recs) |->
                         _transform_chembl_drug_indications(
                             Pop(Pop(recs[i], "query"), "_score"))]

\* C7: a lookup result without an entry for a queried id means "no
\* annotation", never a crash: annotate_curie returns normally with no
\* records, and annotate_trapi never fails for a missing entry (its only
\* KeyError is the append to a node without attributes).
C7_MissingEntryTolerated ==
    /\ (op = "annotate_curie" /\ pc # "start" /\ calls # <<>>
            /\ ~HasKey(res_by_id, calls[1].ids[1]))
        => pc = "done"
    /\ (op = "annotate_trapi" /\ pc = "failed" /\ exc = "KeyError")
        => /\ res_by_id[ri].key \in DOMAIN node_id_d
           /\ append
           /\ "attributes" \notin DOMAIN nodes[node_id_d[res_by_id[ri].key]]

\* C8: for a curie with a colon, parse_curie splits at the first colon only;
\* the lookup id is the part after it for a known prefix without keep_prefix,
\* the whole curie for a keep_prefix prefix, and the whole curie with entity
\* type None for an unknown prefix.
C8_ParseLookupId ==
    (op = "parse_curie" /\ HasColon(curie) /\ pc # "start") =>
        /\ pc = "done"
        /\ ret.v.has_id = return_id /\ ret.v.has_type = return_type
        /\ return_id =>
            /\ PrefixIn(curie, KnownPlainPrefixes) => ret.v.id = AfterColon(curie)
            /\ PrefixIn(curie, KeepPrefixes) => ret.v.id = curie
            /\ UnknownPrefix(curie) => ret.v.id = curie
        /\ (return_type /\ UnknownPrefix(curie)) => ret.v.type = None

C8_Witness ==
    /\ op = "parse_curie" /\ pc = "done" /\ return_id
    /\ PrefixIn(curie, KnownPlainPrefixes)
    /\ HasColon(AfterColon(curie))
    /\ ret.v.id = AfterColon(curie)

\* C9: annotate_curie fails with InvalidCurieError when the curie has no
\* colon and when its prefix maps to no entity type, and no lookup call is
\* issued before the failure.
C9_InvalidCurieNoLookup ==
    (op = "annotate_curie" /\ pc # "start"
        /\ (~HasColon(curie) \/ UnknownPrefix(curie))) =>
        /\ pc = "failed"
        /\ exc = "InvalidCurieError"
        /\ calls = <<>>

C9_Witness ==
    /\ op = "annotate_curie" /\ pc = "failed" /\ exc = "InvalidCurieError"
    /\ HasColon(curie) /\ UnknownPrefix(curie)
    /\ calls = <<>>

\* Two positions of node_d whose ids have the same entity type and the same
\* lookup id, i the earlier one.
Collide(i, j) ==
    /\ i < j
    /\ ResolvedType(node_d[i]) # None
    /\ ResolvedType(node_d[i]) = ResolvedType(node_d[j])
    /\ LookupIdOf(node_d[i]) = LookupIdOf(node_d[j])

\* C10: when two node ids of one entity type have the same lookup id, the
\* earlier node is never modified, what the lookup returns for the id is
\* attached to the later node, and the collision makes no call fail (a call
\* fails only for an id without a colon or an append to a node without
\* attributes).
C10_LaterCollidingNodeWins ==
    (TrapiRun /\ pc # "start") =>
        \A i, j \in 1..Len(node_d) :
            Collide(i, j) =>
                /\ nodes[node_d[i]] = input_nodes[node_d[i]]
                /\ \A a \in 1..Len(annotated) : annotated[a].node # node_d[i]
                /\ pc = "done" =>
                     \A c \in 1..Len(calls) :
                        (/\ calls[c].type = ResolvedType(node_d[j])
                         /\ HasKey(calls[c].res, LookupIdOf(node_d[j])))
                        => /\ \A k \in (j + 1)..Len(node_d) : ~Collide(j, k)
                           /\ "attributes" \in DOMAIN nodes[node_d[j]]
                           /\ LET attrs == nodes[node_d[j]]["attributes"]
                              IN  attrs[Len(attrs)] =
                                    ExpectedEnvelope(
                                        Lookup(calls[c].res, LookupIdOf(node_d[j])), raw)
                /\ pc = "failed" =>
                     \/ /\ exc = "InvalidCurieError"
                        /\ \E k \in 1..Len(node_d) : ~HasColon(node_d[k])
                     \/ /\ exc = "KeyError" /\ append
                        /\ \E k \in 1..Len(node_d) :
                              "attributes" \notin DOMAIN input_nodes[node_d[k]]

C10_Witness ==
    /\ TrapiRun /\ pc = "done"
    /\ \E i, j \in 1..Len(node_d) :
          /\ Collide(i, j)
          /\ \E a \in 1..Len(annotated) : annotated[a].node = node_d[j]
          /\ nodes[node_d[i]] = input_nodes[node_d[i]]

\* A mesh id that is a curie of the namespace MESH.
IsMeshCurie(m) == Len(m) >= 2 /\ m[1] = "MESH" /\ m[2] = ":"

\* C11: after the non-raw transform of a record every mesh_id of
\* chembl.drug_indications is a curie MESH:<id> (a bare id gets the prefix
\* "MESH:", a prefixed one is unchanged), and transforming again changes
\* nothing.
C11_MeshIdsBecomeCuries ==
    (op = "transform" /\ pc = "done") =>
        /\ "chembl" \in DOMAIN record =>
              \A i \in 1..Len(record["chembl"].items) :
                LET before == record["chembl"].items[i]
                    after == ret.v["chembl"].items[i]
                IN  "drug_indications" \in DOMAIN before =>
                      \A j \in 1..Len(before["drug_indications"]) :
                        LET din == before["drug_indications"][j]
                            dout == after["drug_indications"][j]
                        IN  "mesh_id" \in DOMAIN din =>
                              /\ IsMeshCurie(dout["mesh_id"])
                              /\ dout["mesh_id"] =
                                    IF IsMeshCurie(din["mesh_id"])
                                    THEN din["mesh_id"]
                                    ELSE <<"MESH", ":">> \o din["mesh_id"]
        /\ transform(ret.v) = ret.v

\* doc a is later than doc b when the dates are compared in the priority
\* order: the first field whose dates differ decides.
RECURSIVE LaterFrom(_, _, _)
LaterFrom(i, a, b) ==
    IF i > Len(date_priority_order)
    THEN FALSE
    ELSE LET da == parse_date(a[date_priority_order[i]])
             db == parse_date(b[date_priority_order[i]])
         IN  IF da = db THEN LaterFrom(i + 1, a, b) ELSE DateGreater(da, db)

\* C12: merge_func returns doc1 exactly when doc1 is later than doc2 with the
\* dates compared in the order transmissiondate, receivedate, receiptdate
\* (a lower-priority date decides only when all higher ones are equal), and
\* doc2 otherwise.
C12_MergeKeepsMostRecent ==
    (op = "merge_func" /\ pc = "done") =>
        ret.v = IF LaterFrom(1, doc1, doc2) THEN doc1 ELSE doc2

====
